---- MODULE Spec2Model ----
(***************************************************************************)
(* card-generator: the prompt assembly / generation pipeline.              *)
(*                                                                         *)
(* Strings are sequences of tokens.  A token is either a literal piece of  *)
(* a prompt template, the line break NL, or a piece of caller- or          *)
(* model-supplied text.  str.format, str.join and f-strings are modelled   *)
(* by what they do on these sequences.                                     *)
(*                                                                         *)
(* One top-level call is followed from its invocation to its outcome.      *)
(* Coroutine 0 is the called coroutine; coroutines 1..n are the tasks      *)
(* asyncio.gather creates for generate_card's per-profile enhancement.     *)
(*                                                                         *)
(* The Streamlit application (app.py) is followed one script run at a      *)
(* time: a widget event starts a run of main(), and a run that calls       *)
(* generate_card waits for that call, which is the pipeline above.         *)
(***************************************************************************)
EXTENDS Integers, Sequences, FiniteSets, TLC

VARIABLES
    env,        \* os.environ[GEMINI_API_KEY_KEY]: an optional string
    call,       \* the arguments of the top-level call
    co,         \* co[i]: state of coroutine i  (0 = the call, 1..n = gather tasks)
    gather,     \* the future returned by asyncio.gather
    completed,  \* the gather tasks in the order in which they finished
    requests,   \* every generate_content request sent to the model, with its response
    warnings,   \* LOGGER.warning records
    config,     \* app: the text handed to normalize_text and what it returned
    session,    \* app: st.session_state, with the state of the widgets
    ui          \* app: where the script run is and what it has shown

\* the state of the Streamlit application
appVars == <<config, session, ui>>

vars == <<env, call, co, gather, completed, requests, warnings, appVars>>

----------------------------------------------------------------------------
(* Bounds of the model *)

MaxProfiles == 2     \* longest family_members list
MaxShort == 1        \* longest family_members list where the list is not the subject
MaxParts == 2        \* most parts in one image response
MaxText == 5         \* longest text given to normalize_text, in characters
MaxMembers == 2      \* largest value of the "Number of family members" input

----------------------------------------------------------------------------
(* Text *)

NL == "\n"

None == [isNone |-> TRUE, val |-> <<>>]
Some(v) == [isNone |-> FALSE, val |-> v]

\* Python truthiness of an Optional[str]:  `not x`
Falsy(x) == x.isNone \/ x.val = <<>>

RECURSIVE Join(_, _)
\* sep.join(texts)
Join(texts, sep) ==
    IF Len(texts) = 0 THEN <<>>
    ELSE IF Len(texts) = 1 THEN texts[1]
    ELSE texts[1] \o sep \o Join(Tail(texts), sep)

Lit(s) == [k |-> "lit", v |-> s]
Ph(s) == [k |-> "ph", v |-> s]

RECURSIVE Format(_, _)
\* template.format(**args): every placeholder is replaced by its argument,
\* the argument's own text is not interpreted again
Format(tpl, args) ==
    IF Len(tpl) = 0 THEN <<>>
    ELSE (IF Head(tpl).k = "ph" THEN args[Head(tpl).v] ELSE <<Head(tpl).v>>)
         \o Format(Tail(tpl), args)

\* sub occurs in t as a contiguous run
Contains(t, sub) ==
    \E i \in 0..(Len(t) - Len(sub)) : SubSeq(t, i + 1, i + Len(sub)) = sub

\* index of the first occurrence of token x in t, 0 when absent
IndexOf(t, x) ==
    IF \E i \in 1..Len(t) : t[i] = x
    THEN CHOOSE i \in 1..Len(t) : t[i] = x /\ \A j \in 1..(i - 1) : t[j] # x
    ELSE 0

RECURSIVE Split(_, _)
\* t.split(sep) for a one-token separator
Split(t, sep) ==
    LET i == IndexOf(t, sep) IN
    IF i = 0 THEN <<t>>
    ELSE <<SubSeq(t, 1, i - 1)>> \o Split(SubSeq(t, i + 1, Len(t)), sep)

----------------------------------------------------------------------------
(* Errors *)

ErrNoKey == "ValueError: GEMINI_API_KEY environment variable not set."
ErrNoText == "RuntimeError: No text response generated"
ErrNoImage == "RuntimeError: No image response generated"
ErrNoImageData == "RuntimeError: No image data available in the response"
ErrUpstream == "UpstreamError"
ErrDecode == "PIL.UnidentifiedImageError"

----------------------------------------------------------------------------
(* Prompt templates *)

\* card.py _PROMPT
Card_PROMPT == <<
    Lit(NL),
    Lit("You are an expert at creating personalized greeting cards by generating family images based on provided pictures and descriptions."),
    Lit(NL), Lit(NL),
    Lit("Task: Generate a "), Ph("topic"),
    Lit(" card image featuring the family members shown in the provided images."),
    Lit(NL), Lit(NL),
    Lit("=== FAMILY MEMBERS ==="), Lit(NL),
    Lit("The following individuals must appear in the image (in order of provided pictures):"),
    Lit(NL),
    Ph("family_members_descriptions"), Lit(NL), Lit(NL),
    Lit("=== CRITICAL REQUIREMENTS ==="), Lit(NL),
    Lit("- PRESERVE IDENTITY: Maintain exact facial structure, distinctive features, and identity of each person from their input image"), Lit(NL),
    Lit("- ACCURATE REPRESENTATION: Keep facial proportions, expressions, and key characteristics faithful to the original images"), Lit(NL),
    Lit("- NATURAL INTEGRATION: Blend all family members naturally into the scene while preserving their individual likenesses"), Lit(NL), Lit(NL),
    Lit("=== SCENE DESCRIPTION ==="), Lit(NL),
    Ph("scene_instructions"), Lit(NL), Lit(NL),
    Lit("=== STYLE INSTRUCTIONS ==="), Lit(NL),
    Ph("style_instructions"), Lit(NL), Lit(NL),
    Lit("=== OVERLAY/ADDITIONAL ELEMENTS ==="), Lit(NL),
    Ph("overlay_instructions"), Lit(NL), Lit(NL),
    Lit("Generate a high-quality greeting card image that balances creative scene composition with accurate representation of the family members."),
    Lit(NL) >>

\* profile.py _PROMPT (the instructive head is one literal)
Profile_PROMPT == <<
    Lit(NL), Lit("You are an expert at creating detailed written profiles ..."),
    Lit(NL), Lit(NL),
    Lit("<UserProvidedDescription>"), Lit(NL),
    Ph("description"), Lit(NL),
    Lit("</UserProvidedDescription>"), Lit(NL), Lit(NL),
    Lit("Detailed profile:"), Lit(NL) >>

\* scene.py _PROMPT (the instructive head is one literal)
Scene_PROMPT == <<
    Lit(NL), Lit("You are an expert at expanding simple scene instructions ..."),
    Lit(NL), Lit(NL),
    Lit("<UserProvidedSceneInstruction>"), Lit(NL),
    Ph("instruction"), Lit(NL),
    Lit("</UserProvidedSceneInstruction>"), Lit(NL), Lit(NL),
    Lit("Enhanced scene description:"), Lit(NL) >>

\* style.py _PROMPT (the instructive head is one literal)
Style_PROMPT == <<
    Lit(NL), Lit("You are an expert at defining artistic styles ..."),
    Lit(NL), Lit(NL),
    Lit("<UserProvidedStyleInstruction>"), Lit(NL),
    Ph("instruction"), Lit(NL),
    Lit("</UserProvidedStyleInstruction>"), Lit(NL), Lit(NL),
    Lit("Enhanced style description:"), Lit(NL) >>

----------------------------------------------------------------------------
(* Profile *)

\* Profile.__str__
Profile_str(p) == <<"Picture of ">> \o p.name \o <<": ">> \o p.description

----------------------------------------------------------------------------
(* Values the caller and the model may supply *)

Ann == [image |-> "ann.jpg", name |-> <<"Ann">>,
        description |-> <<"smiling, red coat">>]
Bob == [image |-> "bob.jpg", name |-> <<"Bob">>,
        description |-> <<"tall,", NL, "grey beard">>]

ProfilePool == {Ann, Bob}

FamilyLists == UNION {[1..n -> ProfilePool] : n \in 0..MaxProfiles}
ShortLists == UNION {[1..n -> ProfilePool] : n \in 0..MaxShort}

Topics == {<<"Holiday">>}
Scenes == {<<>>, <<"on a beach">>}
GivenStyle == Some(<<"watercolor">>)
GivenOverlay == Some(<<"Happy Birthday!">>)
Styles == {None, Some(<<>>), GivenStyle}
Overlays == {None, Some(<<>>), GivenOverlay}
Instructions == {<<>>, <<"a snowy hill">>, <<"a snowy hill", NL, "at dusk">>}

\* a Client is known by the key it was built with; None is "no client passed"
Clients == {None, Some(<<"key-of-client">>)}
EnvValues == {None, Some(<<>>), Some(<<"key-of-env">>)}

\* what client.aio.models.generate_content may do for a TEXT request:
\* raise, or return a response whose .text is None, empty or some text
TextResponses ==
    {[raised |-> TRUE, text |-> None]} \cup
    {[raised |-> FALSE, text |-> t] :
        t \in {None, Some(<<>>), Some(<<"R1">>), Some(<<"R2", NL, "R3">>)}}

\* one response of each kind: raise, no text, a text
FewTextResponses ==
    {[raised |-> TRUE, text |-> None], [raised |-> FALSE, text |-> None],
     [raised |-> FALSE, text |-> Some(<<"R1">>)]}

\* a response part: inline says inline_data is not None, image says as_image()
\* gives an Image, bytes is that Image's image_bytes
TextPart == [inline |-> FALSE, image |-> FALSE, bytes |-> ""]
BlobPart == [inline |-> TRUE, image |-> FALSE, bytes |-> ""]
ImagePart(b) == [inline |-> TRUE, image |-> TRUE, bytes |-> b]

ImageBytes == {"", "png1", "png2", "junk"}
Parts == {TextPart, BlobPart} \cup {ImagePart(b) : b \in ImageBytes}
PartLists == UNION {[1..n -> Parts] : n \in 0..MaxParts}

\* what generate_content may do for an IMAGE request: raise, or return a
\* response whose .parts is None or a list of parts
FewImageResponses ==
    {[raised |-> TRUE, parts |-> None], [raised |-> FALSE, parts |-> None],
     [raised |-> FALSE, parts |-> Some(<<TextPart, ImagePart("png1")>>)]}

ImageResponses ==
    {[raised |-> TRUE, parts |-> None], [raised |-> FALSE, parts |-> None]} \cup
    {[raised |-> FALSE, parts |-> Some(ps)] : ps \in PartLists}

----------------------------------------------------------------------------
(* Coroutines, requests *)

NotStarted == [st |-> "none", text |-> <<>>, image |-> "", err |-> ""]
Ready == [st |-> "ready", text |-> <<>>, image |-> "", err |-> ""]
Awaiting == [st |-> "awaiting", text |-> <<>>, image |-> "", err |-> ""]
InGather == [st |-> "gather", text |-> <<>>, image |-> "", err |-> ""]
ReturnedText(t) == [st |-> "returned", text |-> t, image |-> "", err |-> ""]
ReturnedImage(img) == [st |-> "returned", text |-> <<>>, image |-> img, err |-> ""]
Raised(e) == [st |-> "raised", text |-> <<>>, image |-> "", err |-> e]

Done(c) == c.st \in {"returned", "raised"}

NoCall ==
    [op |-> "none", family_members |-> <<>>, topic |-> <<>>,
     scene_instructions |-> <<>>, overlay_instructions |-> None,
     style_instructions |-> None, expand_profile_descriptions |-> FALSE,
     client |-> None, instruction |-> <<>>, image |-> "", description |-> None]

NoGather == [st |-> "none", err |-> "", results |-> <<>>]

NoResponse == [raised |-> FALSE, text |-> None, parts |-> None]

\* one generate_content call: who awaits it, what was sent, and (once
\* answered) what came back
\* contents=[prompt, *(image_content or [])]
Request(i, modality, contents, aspect_ratio, grounding, key) ==
    [co |-> i, modality |-> modality, contents |-> contents,
     aspect_ratio |-> aspect_ratio,
     google_search |-> grounding, api_key |-> key,
     answered |-> FALSE, response |-> NoResponse]

\* the request coroutine i is suspended on
PendingOf(i) ==
    CHOOSE r \in 1..Len(requests) : requests[r].co = i /\ ~requests[r].answered

Answer(r, resp) ==
    [requests EXCEPT ![r].answered = TRUE, ![r].response = resp]

----------------------------------------------------------------------------
(* google.py *)

\* create_client without its check: an empty key builds a client all the same
create_client_unchecked(api_key) ==
    LET key == IF Falsy(api_key) THEN env ELSE api_key IN
    [ok |-> TRUE, err |-> "", key |-> key.val]

\* create_client(api_key): the key falls back to the environment variable;
\* no key at all is an error
create_client(api_key) ==
    LET key == IF Falsy(api_key) THEN env ELSE api_key IN
    IF Falsy(key)
    THEN [ok |-> FALSE, err |-> ErrNoKey, key |-> <<>>]
    ELSE [ok |-> TRUE, err |-> "", key |-> key.val]

\* `if client is None: client = create_client()`
ClientFor(client) ==
    IF client.isNone THEN create_client(None)
    ELSE [ok |-> TRUE, err |-> "", key |-> client.val]

\* generate_text_response without `if not response.text`: whatever came back
\* is returned
TextOutcome_unchecked(resp) ==
    IF resp.raised THEN Raised(ErrUpstream)
    ELSE ReturnedText(resp.text.val)

\* generate_text_response after the await: the text, or an error when there
\* is none
TextOutcome(resp) ==
    IF resp.raised THEN Raised(ErrUpstream)
    ELSE IF Falsy(resp.text) THEN Raised(ErrNoText)
    ELSE ReturnedText(resp.text.val)

\* the image list without filter(None, images)
ImagesOf_unfiltered(parts) == SelectSeq(parts, LAMBDA p : p.inline)

\* [part.as_image() for part in parts if part.inline_data is not None],
\* then filter(None, images)
ImagesOf(parts) ==
    SelectSeq(SelectSeq(parts, LAMBDA p : p.inline), LAMBDA p : p.image)

\* PIL.Image.open(BytesIO(image_bytes))
Decodable(b) == b \in {"png1", "png2"}
PIL_open(b) == IF b = "png1" THEN "picture1" ELSE "picture2"

\* generate_image_response keeping the last image instead of the first
ImageOutcome_lastImage(resp) ==
    IF resp.raised THEN Raised(ErrUpstream)
    ELSE IF resp.parts.isNone \/ Len(resp.parts.val) = 0 THEN Raised(ErrNoImage)
    ELSE LET images == SelectSeq(resp.parts.val, LAMBDA p : p.inline /\ p.image)
             last == images[Len(images)]
         IN  IF Len(images) = 0 THEN Raised(ErrNoImage)
             ELSE IF last.bytes = "" THEN Raised(ErrNoImageData)
             ELSE IF last.bytes \notin {"png1", "png2"} THEN Raised(ErrDecode)
             ELSE ReturnedImage(IF last.bytes = "png1" THEN "picture1" ELSE "picture2")

\* generate_image_response after the await
ImageOutcome(resp) ==
    IF resp.raised THEN Raised(ErrUpstream)
    ELSE IF resp.parts.isNone \/ Len(resp.parts.val) = 0 THEN Raised(ErrNoImage)
    ELSE LET images == ImagesOf(resp.parts.val) IN
         IF Len(images) = 0 THEN Raised(ErrNoImage)
         ELSE IF images[1].bytes = "" THEN Raised(ErrNoImageData)
         ELSE IF ~Decodable(images[1].bytes) THEN Raised(ErrDecode)
         ELSE ReturnedImage(PIL_open(images[1].bytes))

\* `if len(images) > 1: LOGGER.warning(...)`
ImageWarnings(resp) ==
    IF /\ ~resp.raised
       /\ ~resp.parts.isNone
       /\ Len(ImagesOf(resp.parts.val)) > 1
    THEN <<"Multiple images generated, returning only the first">>
    ELSE <<>>

----------------------------------------------------------------------------
(* asyncio.gather *)

\* the results of the children in the order in which they finished
GatherResults_asCompleted(coN, order, n) == [j \in 1..n |-> coN[order[j]].text]

\* the results of the children, in the order of the awaitables passed in
GatherResults(coN, order, n) == [j \in 1..n |-> coN[j].text]

\* gather(..., return_exceptions=True): a failed child is one more result
DoneCallback_keepsGoing(i, outcome) ==
    LET coN == [co EXCEPT ![i] = outcome]
        n == Len(call.family_members)
    IN  IF gather.st # "pending" THEN gather
        ELSE IF \A j \in 1..n : coN[j].st \in {"returned", "raised"}
             THEN [st |-> "result", err |-> "",
                   results |-> [j \in 1..n |-> coN[j].text]]
        ELSE gather

\* a done-callback that swallows a child's exception
DoneCallback_dropsException(i, outcome) ==
    LET coN == [co EXCEPT ![i] = outcome]
        n == Len(call.family_members)
    IN  IF gather.st # "pending" THEN gather
        ELSE IF \A j \in 1..n : coN[j].st = "returned"
             THEN [st |-> "result", err |-> "",
                   results |-> GatherResults(coN, Append(completed, i), n)]
        ELSE gather

\* the done-callback gather attaches to every child: the first exception
\* fails the outer future at once, the last result completes it
DoneCallback(i, outcome) ==
    LET coN == [co EXCEPT ![i] = outcome]
        n == Len(call.family_members)
    IN  IF gather.st # "pending" THEN gather
        ELSE IF outcome.st = "raised"
             THEN [st |-> "exception", err |-> outcome.err, results |-> <<>>]
        ELSE IF \A j \in 1..n : coN[j].st = "returned"
             THEN [st |-> "result", err |-> "",
                   results |-> GatherResults(coN, Append(completed, i), n)]
        ELSE gather

\* coroutine i ends with outcome; a gather task also runs its done-callback
Finish(i, outcome) ==
    /\ co' = [co EXCEPT ![i] = outcome]
    /\ IF i = 0
       THEN UNCHANGED <<gather, completed>>
       ELSE /\ completed' = Append(completed, i)
            /\ gather' = DoneCallback(i, outcome)

----------------------------------------------------------------------------
(* The two Model Client operations, up to their await *)

\* generate_text_response run by coroutine i until it awaits generate_content:
\* it fails in create_client, or one TEXT request is on its way
generate_text_response(i, prompt, image_content, client) ==
    LET c == ClientFor(client) IN
    IF c.ok
    THEN /\ requests' = Append(requests,
                Request(i, "TEXT", <<prompt>> \o image_content, "", FALSE, c.key))
         /\ co' = [co EXCEPT ![i] = Awaiting]
         /\ UNCHANGED <<gather, completed>>
    ELSE /\ Finish(i, Raised(c.err))
         /\ UNCHANGED requests

\* generate_image_response run by the call until it awaits generate_content
generate_image_response(prompt, image_content, aspect_ratio, add_grounding, client) ==
    LET c == ClientFor(client) IN
    IF c.ok
    THEN /\ requests' = Append(requests,
                Request(0, "IMAGE", <<prompt>> \o image_content,
                        aspect_ratio, add_grounding, c.key))
         /\ co' = [co EXCEPT ![0] = Awaiting]
    ELSE /\ co' = [co EXCEPT ![0] = Raised(c.err)]
         /\ UNCHANGED requests

----------------------------------------------------------------------------
(* tools: scene.py, style.py, profile.py, card.py *)

\* the template without its {instruction} filled in from the argument
ScenePrompt_withoutInstruction(instruction) ==
    Format(Scene_PROMPT, [instruction |-> <<>>])

ScenePrompt(instruction) == Format(Scene_PROMPT, [instruction |-> instruction])
StylePrompt(instruction) == Format(Style_PROMPT, [instruction |-> instruction])

\* _PROMPT.format(description=description or 'N/A')
ProfilePrompt(description) ==
    Format(Profile_PROMPT,
           [description |-> IF Falsy(description) THEN <<"N/A">> ELSE description.val])

\* the request without image_content=[image]
generate_profile_description_noImage(i, image, description, client) ==
    generate_text_response(i, ProfilePrompt(description), <<>>, client)

generate_profile_description(i, image, description, client) ==
    generate_text_response(i, ProfilePrompt(description), <<image>>, client)

\* '\n'.join([f'- {str(pic)}' for pic in family_members])
PlainDescriptions(family_members) ==
    Join([j \in 1..Len(family_members) |-> <<"- ">> \o Profile_str(family_members[j])],
         <<NL>>)

\* '\n'.join(expanded_descriptions)
ExpandedDescriptions(expanded_descriptions) == Join(expanded_descriptions, <<NL>>)

\* `if overlay_instructions is None` in place of `if not overlay_instructions`
OverlayOrDefault_onlyNone(overlay_instructions) ==
    IF overlay_instructions.isNone THEN <<"N/A">> ELSE overlay_instructions.val

OverlayOrDefault(overlay_instructions) ==
    IF Falsy(overlay_instructions) THEN <<"N/A">> ELSE overlay_instructions.val

StyleOrDefault(style_instructions) ==
    IF Falsy(style_instructions)
    THEN <<"Photorealistic style with vibrant colors.">>
    ELSE style_instructions.val

CardPrompt(c, family_member_descriptions) ==
    Format(Card_PROMPT,
           [topic |-> c.topic,
            family_members_descriptions |-> family_member_descriptions,
            scene_instructions |-> c.scene_instructions,
            overlay_instructions |-> OverlayOrDefault(c.overlay_instructions),
            style_instructions |-> StyleOrDefault(c.style_instructions)])

\* the images attached last profile first
FamilyImages_reversed(family_members) ==
    [j \in 1..Len(family_members) |->
        family_members[Len(family_members) + 1 - j].image]

\* [pic.image for pic in family_members]
FamilyImages(family_members) ==
    [j \in 1..Len(family_members) |-> family_members[j].image]

\* generate_card from the description block on: defaults, prompt, images and
\* the image call
\* the image call left to generate_image_response's defaults
CardImageCall_defaults(c, family_member_descriptions) ==
    generate_image_response(CardPrompt(c, family_member_descriptions),
                            FamilyImages(c.family_members), "1:1", FALSE, c.client)

CardImageCall(c, family_member_descriptions) ==
    generate_image_response(CardPrompt(c, family_member_descriptions),
                            FamilyImages(c.family_members), "4:3", TRUE, c.client)

----------------------------------------------------------------------------
(* app.py: normalisation of the loaded configuration.  Here a string is    *)
(* the sequence of its characters.                                         *)

\* characters str.strip() removes
Whitespace == {" ", "\t", NL}

Chars == {"a", "b", " ", "\t", NL}

\* the strings of at most MaxText characters
Texts == UNION {[1..n -> Chars] : n \in 0..MaxText}

NoConfig == [text |-> <<>>, normalized |-> None]

strip_leadingOnly(line) ==
    LET inner == {k \in 1..Len(line) : line[k] \notin Whitespace} IN
    IF inner = {} THEN <<>>
    ELSE SubSeq(line, CHOOSE k \in inner : \A m \in inner : k <= m, Len(line))

\* line.strip()
strip(line) ==
    LET inner == {k \in 1..Len(line) : line[k] \notin Whitespace} IN
    IF inner = {} THEN <<>>
    ELSE SubSeq(line, CHOOSE k \in inner : \A m \in inner : k <= m,
                      CHOOSE k \in inner : \A m \in inner : k >= m)

RECURSIVE cleaned_lines(_)
\* [line.strip() for line in lines if line.strip()]
cleaned_lines(lines) ==
    IF lines = <<>> THEN <<>>
    ELSE (IF strip(Head(lines)) # <<>> THEN <<strip(Head(lines))>> ELSE <<>>)
         \o cleaned_lines(Tail(lines))

\* normalize_text(text)
normalize_text(text) ==
    IF text = <<>> THEN text
    ELSE Join(cleaned_lines(Split(text, NL)), <<" ">>)

\* normalize_config(config) on a string value
normalize_config(value) == normalize_text(value)

----------------------------------------------------------------------------
(* app.py: the session of the Streamlit application *)

NoImage == ""

\* FamilyMemberInput()
NoMember == [image |-> NoImage, name |-> None, description |-> None]

\* FamilyMemberInput.is_complete with only the photo looked at
is_complete_imageOnly(member) == member.image # NoImage

\* FamilyMemberInput.is_complete
is_complete(member) ==
    /\ member.image # NoImage
    /\ ~Falsy(member.name)
    /\ ~Falsy(member.description)

\* what the user may put into the widgets
UserKey == <<"key-of-user">>
SidebarKeys == {<<>>, UserKey}
Photos == {"ann.jpg"}
MemberNames == {<<"Ann">>}
MemberDescriptions == {<<"smiling, red coat">>}

\* what the user may type into an instruction field
TypedInstructions == {<<>>, <<"on a beach">>}

\* config.yaml as load_config reads it: the presets of each section with
\* their texts as written in the file
ConfigFile ==
    [scenes |-> [p \in {"Christmas Sled Ride", "Custom"} |->
                    IF p = "Custom" THEN <<>>
                    ELSE <<"a sled ride", NL, " ", "down a snowy hill", NL>>],
     styles |-> [p \in {"Cartoon/Comic", "Watercolor"} |->
                    IF p = "Watercolor" THEN <<"soft watercolor">>
                    ELSE <<"bold outlines", NL, NL, "\t", "bright colors">>],
     overlays |-> [p \in {"Happy Holidays!", "Snowflakes"} |->
                    IF p = "Snowflakes" THEN <<"falling snowflakes", " ">>
                    ELSE <<"the text Happy Holidays!">>]]

\* the presets with the texts of the file taken as they are
predefined_asWritten ==
    [scene |-> ConfigFile.scenes, style |-> ConfigFile.styles,
     overlay |-> ConfigFile.overlays]

\* predefined_scenes, predefined_styles, predefined_overlays of main(): the
\* sections of load_config(), every text normalized
predefined ==
    [scene |-> [p \in DOMAIN ConfigFile.scenes |->
                   normalize_config(ConfigFile.scenes[p])],
     style |-> [p \in DOMAIN ConfigFile.styles |->
                   normalize_config(ConfigFile.styles[p])],
     overlay |-> [p \in DOMAIN ConfigFile.overlays |->
                   normalize_config(ConfigFile.overlays[p])]]

\* the session keys and AppState fields of the three instruction sections
Fields == <<"scene", "style", "overlay">>
PresetKey == [scene |-> "scene_preset", style |-> "style_preset",
              overlay |-> "overlay_preset"]
InstructionsKey == [scene |-> "scene_instructions", style |-> "style_instructions",
                    overlay |-> "overlay_instructions"]
EnhancingKey == [scene |-> "enhancing_scene", style |-> "enhancing_style"]
EnhancedKey == [scene |-> "scene_enhanced", style |-> "style_enhanced"]

\* the presets selected by init_ui_state and their texts
DefaultTopic == <<"Holiday">>
DefaultScene == predefined.scene["Christmas Sled Ride"]
DefaultStyle == predefined.style["Cartoon/Comic"]
DefaultOverlay == predefined.overlay["Happy Holidays!"]

\* before the application is opened: no preset is selected, no proposal is
\* held under scene_enhanced or style_enhanced
NoSession ==
    [gemini_key |-> <<>>, num_members |-> 0, current_member_index |-> 0,
     family_members |-> <<>>, upload |-> NoImage, generated_image |-> NoImage,
     scene_preset |-> "", style_preset |-> "", overlay_preset |-> "",
     enhancing_scene |-> FALSE, enhancing_style |-> FALSE,
     scene_enhanced |-> None, style_enhanced |-> None,
     app_state |-> [family_members |-> <<>>, topic |-> <<>>,
                    scene_instructions |-> <<>>, style_instructions |-> <<>>,
                    overlay_instructions |-> <<>>]]

\* init_ui_state(): a preset that is not in the session yet is set
init_ui_state(s) ==
    [s EXCEPT !.scene_preset = IF @ = "" THEN "Christmas Sled Ride" ELSE @,
              !.style_preset = IF @ = "" THEN "Cartoon/Comic" ELSE @,
              !.overlay_preset = IF @ = "" THEN "Happy Holidays!" ELSE @]

\* messages of st.error / st.sidebar.error
MsgEnterKey == <<"Please enter your Gemini API Key to continue.">>
MsgUploadAll == <<"Please upload all photos before generating!">>
MsgGenerating(e) == <<"Error generating card: ", e>>
MsgLoading(j, e) == <<"Error loading image for member ", j, ": ", e>>
MsgEnhanceFailed(f) == <<"Failed to enhance ", f, " description">>
MsgEnhanceError(f, e) == <<"Error enhancing ", f, ": ", e>>

\* where the script run is, the event that started it and its section (or
\* the section of the enhancement call), what it has shown, the calls made,
\* and the instruction text each proposal held in the session was asked for
NoRun ==
    [pc |-> "closed", event |-> "none", errors |-> {}, card_calls |-> 0,
     field |-> "", enhance_calls |-> 0,
     asked_for |-> [scene |-> <<>>, style |-> <<>>]]

\* a widget event that starts a script run
NoEvent ==
    [kind |-> "none", num |-> 0, file |-> NoImage, text |-> <<>>,
     field |-> "", preset |-> ""]

\* the sidebar: `if not gemini_key: st.sidebar.error(...)`
SidebarErrors(s) == IF s.gemini_key = <<>> THEN {MsgEnterKey} ELSE {}

\* the left column without `if current_member_index >= num_members`
LeftColumn_noReset(s, ev) ==
    LET num_members == IF ev.kind = "num_members" THEN ev.num ELSE s.num_members
        idx == s.current_member_index
        grown == IF Len(s.family_members) < num_members
                 THEN s.family_members \o
                      [j \in 1..(num_members - Len(s.family_members)) |-> NoMember]
                 ELSE s.family_members
        uploaded_file == IF ev.kind = "upload" THEN ev.file ELSE s.upload
        current_member == grown[idx + 1]
        shown ==
            [image |-> IF uploaded_file # NoImage THEN uploaded_file
                       ELSE current_member.image,
             name |-> IF ev.kind = "name" THEN Some(ev.text)
                      ELSE current_member.name,
             description |-> IF ev.kind = "description" THEN Some(ev.text)
                             ELSE current_member.description]
    IN  [s EXCEPT !.num_members = num_members,
                  !.family_members = [grown EXCEPT ![idx + 1] = shown],
                  !.upload = uploaded_file]

\* the left column of main(), from the number input to the description
\* field: the index is reset, the member list grows, the shown member takes
\* the values of its widgets.  The uploader of a member that is not shown
\* keeps no state.
LeftColumn(s, ev) ==
    LET num_members == IF ev.kind = "num_members" THEN ev.num ELSE s.num_members
        idx == IF s.current_member_index >= num_members
               THEN 0 ELSE s.current_member_index
        grown == IF Len(s.family_members) < num_members
                 THEN s.family_members \o
                      [j \in 1..(num_members - Len(s.family_members)) |-> NoMember]
                 ELSE s.family_members
        uploaded_file ==
            IF ev.kind = "upload" THEN ev.file
            ELSE IF idx = s.current_member_index THEN s.upload ELSE NoImage
        current_member == grown[idx + 1]
        shown ==
            [image |-> IF uploaded_file # NoImage THEN uploaded_file
                       ELSE current_member.image,
             name |-> IF ev.kind = "name" THEN Some(ev.text)
                      ELSE current_member.name,
             description |-> IF ev.kind = "description" THEN Some(ev.text)
                             ELSE current_member.description]
    IN  [s EXCEPT !.num_members = num_members,
                  !.current_member_index = idx,
                  !.family_members = [grown EXCEPT ![idx + 1] = shown],
                  !.upload = uploaded_file]

\* `if not app_state.scene_instructions: ...` before the columns, and the
\* topic field: empty instructions take the text of the selected preset
DefaultInstructions(s) ==
    LET a == s.app_state IN
    [s EXCEPT !.app_state =
        [a EXCEPT !.topic = IF a.topic = <<>> THEN DefaultTopic ELSE a.topic,
                  !.scene_instructions =
                      IF a.scene_instructions = <<>>
                      THEN predefined.scene[s.scene_preset]
                      ELSE a.scene_instructions,
                  !.style_instructions =
                      IF a.style_instructions = <<>>
                      THEN predefined.style[s.style_preset]
                      ELSE a.style_instructions,
                  !.overlay_instructions =
                      IF a.overlay_instructions = <<>>
                      THEN predefined.overlay[s.overlay_preset]
                      ELSE a.overlay_instructions]]

\* how a part of a script run ends: the session, the way it ended ("end":
\* it ran through, "rerun": st.rerun(), "call": at an enhancement call) and
\* the section it ended in
Ended(s, stop, f) == [s |-> s, stop |-> stop, field |-> f]

\* the preset selector with the texts of the file as written
PresetSelector_asWritten(s, f, ev) ==
    LET chosen == IF ev.kind = "preset" /\ ev.field = f
                  THEN ev.preset ELSE s[PresetKey[f]]
    IN  IF chosen # s[PresetKey[f]]
        THEN Ended([s EXCEPT ![PresetKey[f]] = chosen,
                             !.app_state[InstructionsKey[f]] =
                                 predefined_asWritten[f][chosen]],
                   "rerun", f)
        ELSE Ended(s, "end", f)

\* the preset selector of section f: a widget without key gives what the
\* user has just chosen, otherwise the value it is created with.  A new
\* preset is stored, its text becomes the instructions and st.rerun() ends
\* the run.
PresetSelector(s, f, ev) ==
    LET chosen == IF ev.kind = "preset" /\ ev.field = f
                  THEN ev.preset ELSE s[PresetKey[f]]
    IN  IF chosen # s[PresetKey[f]]
        THEN Ended([s EXCEPT ![PresetKey[f]] = chosen,
                             !.app_state[InstructionsKey[f]] = predefined[f][chosen]],
                   "rerun", f)
        ELSE Ended(s, "end", f)

\* the text area of section f, and the enhance button of scene and style
InstructionsArea(s, f, ev) ==
    LET typed == [s EXCEPT !.app_state[InstructionsKey[f]] =
                      IF ev.kind = "instructions" /\ ev.field = f THEN ev.text ELSE @]
    IN  IF ev.kind = "enhance" /\ ev.field = f
        THEN [typed EXCEPT ![EnhancingKey[f]] = TRUE]
        ELSE typed

\* the enhancement block without `if SESSION_..._ENHANCED not in
\* st.session_state`: the flag alone sends the run to the call
NeedsEnhancement_ignoresCache(s, f) ==
    /\ f \in DOMAIN EnhancingKey
    /\ s[EnhancingKey[f]]

\* `if st.session_state[SESSION_ENHANCING_...]` with no proposal in the
\* session: the run goes to the enhancement call
NeedsEnhancement(s, f) ==
    /\ f \in DOMAIN EnhancingKey
    /\ s[EnhancingKey[f]]
    /\ s[EnhancedKey[f]].isNone

\* Accept that leaves the flag and the proposal in the session
ProposalBlock_keepsProposal(s, f, ev) ==
    IF f \notin DOMAIN EnhancingKey THEN Ended(s, "end", f)
    ELSE IF ~s[EnhancingKey[f]] \/ s[EnhancedKey[f]].isNone THEN Ended(s, "end", f)
    ELSE IF ev.kind = "accept" /\ ev.field = f
    THEN Ended([s EXCEPT !.app_state[InstructionsKey[f]] = s[EnhancedKey[f]].val],
               "rerun", f)
    ELSE IF ev.kind = "decline" /\ ev.field = f
    THEN Ended([s EXCEPT ![EnhancingKey[f]] = FALSE, ![EnhancedKey[f]] = None],
               "end", f)
    ELSE Ended(s, "end", f)

\* Decline that resets the flag and leaves the proposal in the session
ProposalBlock_declineKeepsProposal(s, f, ev) ==
    IF f \notin DOMAIN EnhancingKey THEN Ended(s, "end", f)
    ELSE IF ~s[EnhancingKey[f]] \/ s[EnhancedKey[f]].isNone THEN Ended(s, "end", f)
    ELSE IF ev.kind = "accept" /\ ev.field = f
    THEN Ended([s EXCEPT !.app_state[InstructionsKey[f]] = s[EnhancedKey[f]].val,
                         ![EnhancingKey[f]] = FALSE,
                         ![EnhancedKey[f]] = None],
               "rerun", f)
    ELSE IF ev.kind = "decline" /\ ev.field = f
    THEN Ended([s EXCEPT ![EnhancingKey[f]] = FALSE], "end", f)
    ELSE Ended(s, "end", f)

\* the proposal held in the session is shown: Accept writes it into the
\* instructions and reruns, Decline drops it
ProposalBlock(s, f, ev) ==
    IF f \notin DOMAIN EnhancingKey THEN Ended(s, "end", f)
    ELSE IF ~s[EnhancingKey[f]] \/ s[EnhancedKey[f]].isNone THEN Ended(s, "end", f)
    ELSE IF ev.kind = "accept" /\ ev.field = f
    THEN Ended([s EXCEPT !.app_state[InstructionsKey[f]] = s[EnhancedKey[f]].val,
                         ![EnhancingKey[f]] = FALSE,
                         ![EnhancedKey[f]] = None],
               "rerun", f)
    ELSE IF ev.kind = "decline" /\ ev.field = f
    THEN Ended([s EXCEPT ![EnhancingKey[f]] = FALSE, ![EnhancedKey[f]] = None],
               "end", f)
    ELSE Ended(s, "end", f)

\* the sections of the right column from the k-th on
RECURSIVE RightColumn(_, _, _)
RightColumn(s, ev, k) ==
    IF k > Len(Fields) THEN Ended(s, "end", "")
    ELSE LET f == Fields[k]
             selected == PresetSelector(s, f, ev)
             typed == InstructionsArea(s, f, ev)
             shown == ProposalBlock(typed, f, ev)
         IN  IF selected.stop = "rerun" THEN selected
             ELSE IF NeedsEnhancement(typed, f) THEN Ended(typed, "call", f)
             ELSE IF shown.stop = "rerun" THEN shown
             ELSE RightColumn(shown.s, ev, k + 1)

\* one pass over main() up to the Generate button
RunOnce(s, ev) ==
    RightColumn(LeftColumn(DefaultInstructions(init_ui_state(s)), ev), ev, 1)

\* main() after widget event ev, with the run that st.rerun() starts
main(s, ev) ==
    LET r == RunOnce(s, ev) IN
    IF r.stop = "rerun" THEN RunOnce(r.s, NoEvent) ELSE r

\* the session after a run in which Generate is not clicked
ScriptRun(s, ev) == main(s, ev).s

\* the first run of a new session: the key field starts with the value of
\* the environment variable, the number input with 2
FirstRun(e) ==
    ScriptRun([NoSession EXCEPT !.gemini_key = IF e.isNone THEN <<>> ELSE e.val,
                                !.num_members = 2],
              NoEvent)

\* `upload_key in st.session_state and st.session_state[upload_key] is not
\* None`: the uploader of member j holds a file
HoldsFile(s, j) == j = s.current_member_index /\ s.upload # NoImage

\* `for j in range(num_members)`: a ProfilePicture for every member whose
\* uploader holds a file; when Image.open raises (opens is false) the loop
\* ends with the profiles it has
RECURSIVE PopulateFamily(_, _, _)
PopulateFamily(s, j, opens) ==
    IF j >= s.num_members THEN <<>>
    ELSE IF ~HoldsFile(s, j) THEN PopulateFamily(s, j + 1, opens)
    ELSE IF ~opens THEN <<>>
    ELSE <<[image |-> s.upload,
            name |-> s.family_members[j + 1].name.val,
            description |-> s.family_members[j + 1].description.val]>>
         \o PopulateFamily(s, j + 1, opens)

\* st.error of the loop: the member whose image did not load
LoadErrors(s, opens) ==
    {MsgLoading(j + 1, ErrDecode) : j \in {i \in 0..(s.num_members - 1) :
                                             HoldsFile(s, i) /\ ~opens}}

\* the generate_card call of main()
AppCardCall(s) ==
    [NoCall EXCEPT !.op = "generate_card",
                   !.family_members = s.app_state.family_members,
                   !.topic = s.app_state.topic,
                   !.scene_instructions = s.app_state.scene_instructions,
                   !.overlay_instructions = Some(s.app_state.overlay_instructions),
                   !.style_instructions = Some(s.app_state.style_instructions)]

\* after asyncio.run(generate_card(...)) with a failure that clears the card
StoreOutcome_clearsOnError(s, outcome) ==
    IF outcome.st = "returned"
    THEN [s EXCEPT !.generated_image = outcome.image]
    ELSE [s EXCEPT !.generated_image = NoImage]

\* after asyncio.run(generate_card(...)): the image is stored, or the
\* exception is caught and nothing is stored
StoreOutcome(s, outcome) ==
    IF outcome.st = "returned"
    THEN [s EXCEPT !.generated_image = outcome.image]
    ELSE s

----------------------------------------------------------------------------
(* Actions *)

Init ==
    /\ env \in EnvValues
    /\ call = NoCall
    /\ co = [i \in 0..MaxProfiles |-> NotStarted]
    /\ gather = NoGather
    /\ completed = <<>>
    /\ requests = <<>>
    /\ warnings = <<>>
    /\ config = NoConfig
    /\ session = NoSession
    /\ ui = NoRun

\* generate_scene_description(instruction, client=client), to its await
CallSceneDescription ==
    \E instruction \in Instructions, client \in Clients :
        /\ call.op = "none"
        /\ call' = [NoCall EXCEPT !.op = "generate_scene_description",
                                  !.instruction = instruction, !.client = client]
        /\ generate_text_response(0, ScenePrompt(instruction), <<>>, client)
        /\ UNCHANGED <<env, warnings, appVars>>

\* generate_style_description(instruction, client=client), to its await
CallStyleDescription ==
    \E instruction \in Instructions, client \in Clients :
        /\ call.op = "none"
        /\ call' = [NoCall EXCEPT !.op = "generate_style_description",
                                  !.instruction = instruction, !.client = client]
        /\ generate_text_response(0, StylePrompt(instruction), <<>>, client)
        /\ UNCHANGED <<env, warnings, appVars>>

\* generate_profile_description(image, description, client=client), to its await
CallProfileDescription ==
    \E p \in ProfilePool, withDescription \in BOOLEAN, client \in Clients :
        LET description == IF withDescription THEN Some(p.description) ELSE None IN
        /\ call.op = "none"
        /\ call' = [NoCall EXCEPT !.op = "generate_profile_description",
                                  !.image = p.image, !.description = description,
                                  !.client = client]
        /\ generate_profile_description(0, p.image, description, client)
        /\ UNCHANGED <<env, warnings, appVars>>

\* generate_card(...), to its first await: either the gather over one
\* enhancement task per family member, or the image call
CallGenerateCard(lists, overlays, styles) ==
    \E family_members \in lists, topic \in Topics, scene \in Scenes,
       overlay \in overlays, style \in styles, expand \in BOOLEAN,
       client \in Clients :
        LET c == [NoCall EXCEPT !.op = "generate_card",
                                !.family_members = family_members,
                                !.topic = topic,
                                !.scene_instructions = scene,
                                !.overlay_instructions = overlay,
                                !.style_instructions = style,
                                !.expand_profile_descriptions = expand,
                                !.client = client]
            n == Len(family_members)
        IN  /\ call.op = "none"
            /\ call' = c
            /\ IF expand /\ n > 0
               THEN /\ co' = [i \in 0..MaxProfiles |->
                                IF i = 0 THEN InGather
                                ELSE IF i <= n THEN Ready ELSE NotStarted]
                    /\ gather' = [st |-> "pending", err |-> "", results |-> <<>>]
                    /\ UNCHANGED requests
               ELSE IF expand
               THEN \* gather() of nothing is already resolved with []
                    /\ gather' = [st |-> "result", err |-> "", results |-> <<>>]
                    /\ CardImageCall(c, ExpandedDescriptions(<<>>))
               ELSE /\ gather' = gather
                    /\ CardImageCall(c, PlainDescriptions(family_members))
            /\ UNCHANGED <<env, completed, warnings, appVars>>

\* a gather task runs generate_profile_description for its family member,
\* to its await
TaskStart(i) ==
    /\ co[i].st = "ready"
    /\ LET pic == call.family_members[i] IN
       generate_profile_description(i, pic.image, Some(pic.description), call.client)
    /\ UNCHANGED <<env, call, warnings, appVars>>

\* the model answers the TEXT request coroutine i awaits; generate_text_response
\* and its caller run to their end
TextAnswered(i, resp) ==
    /\ co[i].st = "awaiting"
    /\ requests[PendingOf(i)].modality = "TEXT"
    /\ requests' = Answer(PendingOf(i),
                          [raised |-> resp.raised, text |-> resp.text, parts |-> None])
    /\ Finish(i, TextOutcome(resp))
    /\ UNCHANGED <<env, call, warnings, appVars>>

TextRespond(i) == \E resp \in TextResponses : TextAnswered(i, resp)

FewTextRespond(i) == \E resp \in FewTextResponses : TextAnswered(i, resp)

\* a model that answers a TEXT request with the prompt it was sent
EchoRespond(i) ==
    /\ co[i].st = "awaiting"
    /\ TextAnswered(i, [raised |-> FALSE,
                        text |-> Some(requests[PendingOf(i)].contents[1])])

\* generate_card resuming with the enhanced texts written into the profiles
GatherResume_replacesDescriptions ==
    /\ co[0].st = "gather"
    /\ gather.st \in {"result", "exception"}
    /\ IF gather.st = "exception"
       THEN /\ co' = [co EXCEPT ![0] = Raised(gather.err)]
            /\ UNCHANGED <<requests, call>>
       ELSE /\ CardImageCall(call, ExpandedDescriptions(gather.results))
            /\ call' = [call EXCEPT !.family_members =
                           [j \in 1..Len(call.family_members) |->
                              [call.family_members[j] EXCEPT
                                  !.description = gather.results[j]]]]
    /\ UNCHANGED <<env, gather, completed, warnings, appVars>>

\* generate_card resumes from `await asyncio.gather(...)`
GatherResume ==
    /\ co[0].st = "gather"
    /\ gather.st \in {"result", "exception"}
    /\ IF gather.st = "exception"
       THEN /\ co' = [co EXCEPT ![0] = Raised(gather.err)]
            /\ UNCHANGED requests
       ELSE CardImageCall(call, ExpandedDescriptions(gather.results))
    /\ UNCHANGED <<env, call, gather, completed, warnings, appVars>>

\* the model answers the IMAGE request; generate_image_response and
\* generate_card run to their end
ImageRespond(responses) ==
    \E resp \in responses :
        /\ co[0].st = "awaiting"
        /\ requests[PendingOf(0)].modality = "IMAGE"
        /\ requests' = Answer(PendingOf(0),
                              [raised |-> resp.raised, text |-> None, parts |-> resp.parts])
        /\ co' = [co EXCEPT ![0] = ImageOutcome(resp)]
        /\ warnings' = warnings \o ImageWarnings(resp)
        /\ UNCHANGED <<env, call, gather, completed, appVars>>

Next(lists, overlays, styles, responses) ==
    \/ CallSceneDescription
    \/ CallStyleDescription
    \/ CallProfileDescription
    \/ CallGenerateCard(lists, overlays, styles)
    \/ \E i \in 1..MaxProfiles : TaskStart(i)
    \/ \E i \in 0..MaxProfiles : TextRespond(i)
    \/ GatherResume
    \/ ImageRespond(responses)

\* The pipeline with every family list; the instructions for style and
\* overlay are given, the image response is one of a few shapes.
Spec ==
    Init /\ [][Next(FamilyLists, {GivenOverlay}, {GivenStyle}, FewImageResponses)]_vars

\* Prompt formatting: every style and overlay argument, short family lists.
FormatSpec ==
    Init /\ [][Next(ShortLists, Overlays, Styles, FewImageResponses)]_vars

\* Image responses: every list of parts, short family lists.
ImageSpec ==
    Init /\ [][Next(ShortLists, {GivenOverlay}, {GivenStyle}, ImageResponses)]_vars

\* The pipeline with every family list and one response of each kind.
LiveNext ==
    \/ CallSceneDescription
    \/ CallStyleDescription
    \/ CallProfileDescription
    \/ CallGenerateCard(FamilyLists, {GivenOverlay}, {GivenStyle})
    \/ \E i \in 1..MaxProfiles : TaskStart(i)
    \/ \E i \in 0..MaxProfiles : FewTextRespond(i)
    \/ GatherResume
    \/ ImageRespond(FewImageResponses)

\* The event loop runs every task that is ready and resumes a coroutine whose
\* future is resolved; every request sent to the model is answered.
Fairness ==
    /\ \A i \in 1..MaxProfiles : WF_vars(TaskStart(i))
    /\ \A i \in 0..MaxProfiles : WF_vars(FewTextRespond(i))
    /\ WF_vars(GatherResume)
    /\ WF_vars(ImageRespond(FewImageResponses))

LiveSpec == Init /\ [][LiveNext]_vars /\ Fairness

\* The pipeline against a model that echoes the prompt of a TEXT request.
EchoNext ==
    \/ CallSceneDescription
    \/ CallStyleDescription
    \/ CallProfileDescription
    \/ CallGenerateCard(ShortLists, {GivenOverlay}, {GivenStyle})
    \/ \E i \in 1..MaxProfiles : TaskStart(i)
    \/ \E i \in 0..MaxProfiles : EchoRespond(i)
    \/ GatherResume
    \/ ImageRespond(FewImageResponses)

EchoSpec == Init /\ [][EchoNext]_vars

----------------------------------------------------------------------------
(* app.py: load_config *)

libVars == <<env, call, co, gather, completed, requests, warnings>>

\* no call of the library is under way
LibIdle ==
    /\ call = NoCall
    /\ co = [i \in 0..MaxProfiles |-> NotStarted]
    /\ gather = NoGather
    /\ completed = <<>>
    /\ requests = <<>>
    /\ warnings = <<>>

NormalizeInit ==
    /\ env = None
    /\ LibIdle
    /\ session = NoSession
    /\ ui = NoRun
    /\ \E text \in Texts : config = [text |-> text, normalized |-> None]

\* load_config(): the loaded value goes through normalize_config
LoadConfig ==
    /\ config.normalized = None
    /\ config' = [config EXCEPT !.normalized = Some(normalize_config(config.text))]
    /\ UNCHANGED <<libVars, session, ui>>

\* Text normalisation, for every string of at most MaxText characters.
NormalizeSpec == NormalizeInit /\ [][LoadConfig]_vars

----------------------------------------------------------------------------
(* app.py: main().  A widget event starts a run of the script; a run that  *)
(* reaches asyncio.run(generate_card(...)) waits there for the call to end. *)
(* requests holds the requests of the current run.                          *)

\* a script run starts: nothing of the library is under way
LibReset ==
    /\ call' = NoCall
    /\ co' = [i \in 0..MaxProfiles |-> NotStarted]
    /\ gather' = NoGather
    /\ completed' = <<>>
    /\ requests' = <<>>
    /\ warnings' = <<>>

AppInit ==
    /\ env \in EnvValues
    /\ LibIdle
    /\ config = NoConfig
    /\ session = FirstRun(env)
    /\ ui = [NoRun EXCEPT !.pc = "idle", !.event = "open",
                          !.errors = SidebarErrors(FirstRun(env))]

\* a run of the script after widget event ev, from session s
Rerun(s, ev) ==
    /\ ui.pc = "idle"
    /\ \E r \in {main(s, ev)} :
          /\ session' = r.s
          /\ ui' = [pc |-> IF r.stop = "call" THEN "enhance" ELSE "idle",
                    event |-> ev.kind,
                    errors |-> SidebarErrors(r.s),
                    card_calls |-> 0,
                    field |-> IF r.stop = "call" THEN r.field ELSE ev.field,
                    enhance_calls |-> 0,
                    asked_for |-> [f \in DOMAIN EnhancedKey |->
                                     IF r.s[EnhancedKey[f]].isNone THEN <<>>
                                     ELSE ui.asked_for[f]]]
    /\ LibReset
    /\ UNCHANGED <<env, config>>

\* the user edits the "Gemini API Key" field of the sidebar
EditKey ==
    \E k \in SidebarKeys :
        /\ k # session.gemini_key
        /\ Rerun([session EXCEPT !.gemini_key = k], [NoEvent EXCEPT !.kind = "key"])

\* the user changes "Number of family members"
SetNumMembers ==
    \E n \in 1..MaxMembers :
        /\ n # session.num_members
        /\ Rerun(session, [NoEvent EXCEPT !.kind = "num_members", !.num = n])

\* the user uploads a photo for the shown member
UploadPhoto ==
    \E f \in Photos : Rerun(session, [NoEvent EXCEPT !.kind = "upload", !.file = f])

\* the user fills in the name of the shown member
EditName ==
    \E t \in MemberNames : Rerun(session, [NoEvent EXCEPT !.kind = "name", !.text = t])

\* the user fills in the description of the shown member
EditDescription ==
    \E t \in MemberDescriptions :
        Rerun(session, [NoEvent EXCEPT !.kind = "description", !.text = t])

\* "Previous": the index goes down and st.rerun() runs the script again;
\* the uploader of the member now shown holds no file
ClickPrevious ==
    /\ session.current_member_index > 0
    /\ Rerun([LeftColumn(session, NoEvent) EXCEPT !.current_member_index = @ - 1,
                                                  !.upload = NoImage],
             [NoEvent EXCEPT !.kind = "previous"])

\* "Next": the index goes up and st.rerun() runs the script again; the
\* uploader of the member now shown holds no file
ClickNext ==
    /\ session.current_member_index < session.num_members - 1
    /\ Rerun([LeftColumn(session, NoEvent) EXCEPT !.current_member_index = @ + 1,
                                                  !.upload = NoImage],
             [NoEvent EXCEPT !.kind = "next"])

\* "Generate Card": the run reaches the button; an incomplete member ends it
\* with an error, otherwise app_state.family_members is populated, with
\* Image.open giving an image or raising, and the run goes on to the
\* generate_card call
ClickGenerate ==
    /\ ui.pc = "idle"
    /\ \E r \in {main(session, NoEvent)} :
          LET s == r.s
              complete == \A j \in 1..Len(s.family_members) :
                             is_complete(s.family_members[j])
          IN  /\ r.stop = "end"
              /\ IF ~complete
                 THEN /\ session' = s
                      /\ ui' = [ui EXCEPT !.pc = "idle", !.event = "generate",
                                          !.errors = SidebarErrors(s) \cup {MsgUploadAll},
                                          !.card_calls = 0, !.enhance_calls = 0]
                 ELSE \E opens \in BOOLEAN :
                      /\ session' = [s EXCEPT !.app_state.family_members =
                                                 PopulateFamily(s, 0, opens)]
                      /\ ui' = [ui EXCEPT !.pc = "calling", !.event = "generate",
                                          !.errors = SidebarErrors(s)
                                                     \cup LoadErrors(s, opens),
                                          !.card_calls = 0, !.enhance_calls = 0]
    /\ LibReset
    /\ UNCHANGED <<env, config>>

\* asyncio.run(generate_card(...)) of main(), to the await of the image call
AppCallGenerateCard ==
    /\ ui.pc = "calling"
    /\ call' = AppCardCall(session)
    /\ CardImageCall(AppCardCall(session),
                     PlainDescriptions(session.app_state.family_members))
    /\ ui' = [ui EXCEPT !.pc = "in_call", !.card_calls = @ + 1]
    /\ UNCHANGED <<env, gather, completed, warnings, config, session>>

\* generate_card has ended: the image is stored in the session, or the
\* exception is caught and shown; the run ends
GenerateReturn ==
    /\ ui.pc = "in_call"
    /\ Done(co[0])
    /\ session' = StoreOutcome(session, co[0])
    /\ ui' = [ui EXCEPT !.pc = "idle",
                        !.errors = @ \cup (IF co[0].st = "raised"
                                           THEN {MsgGenerating(co[0].err)} ELSE {})]
    /\ UNCHANGED <<libVars, config>>

\* the user selects a preset of a section
SelectPreset ==
    \E k \in 1..Len(Fields) :
        \E p \in DOMAIN predefined[Fields[k]] :
            /\ p # session[PresetKey[Fields[k]]]
            /\ Rerun(session, [NoEvent EXCEPT !.kind = "preset",
                                              !.field = Fields[k], !.preset = p])

\* the user types into the text area of a section
EditInstructions ==
    \E k \in 1..Len(Fields), t \in TypedInstructions :
        /\ t # session.app_state[InstructionsKey[Fields[k]]]
        /\ Rerun(session, [NoEvent EXCEPT !.kind = "instructions",
                                          !.field = Fields[k], !.text = t])

\* the enhance button of the scene or the style section
ClickEnhance ==
    \E f \in DOMAIN EnhancingKey :
        Rerun(session, [NoEvent EXCEPT !.kind = "enhance", !.field = f])

\* "Accept" under a shown proposal
ClickAccept ==
    \E f \in DOMAIN EnhancingKey :
        /\ session[EnhancingKey[f]]
        /\ ~session[EnhancedKey[f]].isNone
        /\ Rerun(session, [NoEvent EXCEPT !.kind = "accept", !.field = f])

\* "Decline" under a shown proposal
ClickDecline ==
    \E f \in DOMAIN EnhancingKey :
        /\ session[EnhancingKey[f]]
        /\ ~session[EnhancedKey[f]].isNone
        /\ Rerun(session, [NoEvent EXCEPT !.kind = "decline", !.field = f])

\* asyncio.run(enhance_scene_instructions(...)) or
\* asyncio.run(enhance_style_instructions(...)), to the await of the text call
AppCallEnhance ==
    LET f == ui.field
        instruction == session.app_state[InstructionsKey[f]]
    IN  /\ ui.pc = "enhance"
        /\ call' = [NoCall EXCEPT !.op = IF f = "scene"
                                         THEN "generate_scene_description"
                                         ELSE "generate_style_description",
                                  !.instruction = instruction]
        /\ generate_text_response(0, IF f = "scene" THEN ScenePrompt(instruction)
                                                    ELSE StylePrompt(instruction),
                                  <<>>, None)
        /\ ui' = [ui EXCEPT !.pc = "in_enhance", !.enhance_calls = @ + 1]
        /\ UNCHANGED <<env, warnings, config, session>>

\* after the enhancement call, a failure leaving the flag set
StoreProposal_keepsFlag(s, f, outcome) ==
    IF outcome.st = "returned" /\ outcome.text # <<>>
    THEN [s EXCEPT ![EnhancedKey[f]] = Some(outcome.text)]
    ELSE s

\* the session after the enhancement call of section f: a text is kept as
\* the proposal, no text or an exception resets the flag
StoreProposal(s, f, outcome) ==
    IF outcome.st = "returned" /\ outcome.text # <<>>
    THEN [s EXCEPT ![EnhancedKey[f]] = Some(outcome.text)]
    ELSE [s EXCEPT ![EnhancingKey[f]] = FALSE]

\* st.error of the enhancement block
EnhanceErrors(f, outcome) ==
    IF outcome.st = "raised" THEN {MsgEnhanceError(f, outcome.err)}
    ELSE IF outcome.text = <<>> THEN {MsgEnhanceFailed(f)}
    ELSE {}

\* the enhancement call has ended: the run stores the proposal or shows the
\* error and goes on with the sections that follow
EnhanceReturn ==
    /\ ui.pc = "in_enhance"
    /\ Done(co[0])
    /\ LET f == ui.field
           k == CHOOSE j \in 1..Len(Fields) : Fields[j] = f
       IN  \E r \in {RightColumn(StoreProposal(session, f, co[0]), NoEvent, k + 1)} :
             /\ session' = r.s
             /\ ui' = [ui EXCEPT
                         !.pc = IF r.stop = "call" THEN "enhance" ELSE "idle",
                         !.field = IF r.stop = "call" THEN r.field ELSE @,
                         !.errors = @ \cup EnhanceErrors(f, co[0]),
                         !.asked_for[f] = IF co[0].st = "returned" /\ co[0].text # <<>>
                                          THEN call.instruction ELSE <<>>]
    /\ UNCHANGED <<libVars, config>>

\* the right column: presets, instruction texts and their enhancement
CustomizeNext ==
    \/ SelectPreset
    \/ EditInstructions
    \/ ClickEnhance
    \/ ClickAccept
    \/ ClickDecline
    \/ AppCallEnhance
    \/ FewTextRespond(0)
    \/ EnhanceReturn

\* The application: presets, instruction fields, enhance, Accept, Decline.
CustomizeSpec == AppInit /\ [][CustomizeNext]_vars

AppNext ==
    \/ EditKey
    \/ SetNumMembers
    \/ UploadPhoto
    \/ EditName
    \/ EditDescription
    \/ ClickPrevious
    \/ ClickNext
    \/ ClickGenerate
    \/ AppCallGenerateCard
    \/ ImageRespond(FewImageResponses)
    \/ GenerateReturn

\* The application: the key field, the family members and Generate.
AppSpec == AppInit /\ [][AppNext]_vars

----------------------------------------------------------------------------
(* Reading a request and a card prompt back *)

RequestPrompt(r) == requests[r].contents[1]
RequestImages(r) == Tail(requests[r].contents)

ImageRequests == {r \in 1..Len(requests) : requests[r].modality = "IMAGE"}
TextRequests == {r \in 1..Len(requests) : requests[r].modality = "TEXT"}

IsCard == call.op = "generate_card"
Family == call.family_members
NumMembers == Len(call.family_members)

FamilyIntro ==
    "The following individuals must appear in the image (in order of provided pictures):"
CriticalMarker == "=== CRITICAL REQUIREMENTS ==="
SceneMarker == "=== SCENE DESCRIPTION ==="
StyleMarker == "=== STYLE INSTRUCTIONS ==="
OverlayMarker == "=== OVERLAY/ADDITIONAL ELEMENTS ==="
Closing ==
    "Generate a high-quality greeting card image that balances creative scene composition with accurate representation of the family members."

\* the text of a prompt between the line `after` and the blank line before
\* the line `before`
Between(prompt, after, before) ==
    SubSeq(prompt, IndexOf(prompt, after) + 2, IndexOf(prompt, before) - 3)

FamilyBlock(prompt) == Between(prompt, FamilyIntro, CriticalMarker)
StyleSection(prompt) == Between(prompt, StyleMarker, OverlayMarker)
OverlaySection(prompt) == Between(prompt, OverlayMarker, Closing)

\* the text the model returned for the request of gather task i
EnhancedFor(i) ==
    LET r == CHOOSE q \in TextRequests : requests[q].co = i
    IN  requests[r].response.text.val

\* what the entry of family member i in the description block comes from:
\* the profile's own rendering, or the model's answer to the request that
\* carried this profile's photo
EntryOf(i) ==
    IF call.expand_profile_descriptions
    THEN EnhancedFor(i)
    ELSE <<"- ", "Picture of ">> \o Family[i].name \o <<": ">> \o Family[i].description

----------------------------------------------------------------------------
(* C1 *)

\* C1: for every non-empty list of profiles, the prompt generate_card passes
\* to the image-generation call contains the name and the description of
\* every profile of the list, whatever expand_profile_descriptions is.
C1_PromptNamesEveryProfile ==
    \A r \in ImageRequests :
        IsCard /\ NumMembers > 0 =>
            \A j \in 1..NumMembers :
                /\ Contains(RequestPrompt(r), Family[j].name)
                /\ Contains(RequestPrompt(r), Family[j].description)

----------------------------------------------------------------------------
(* C2 *)

HasLineBreak(t) == \E k \in 1..Len(t) : t[k] = NL

----------------------------------------------------------------------------
(* C3 *)

\* C3: generate_card validates its required inputs before contacting the
\* model: with an empty profile list or empty scene_instructions it fails
\* and no request (text or image) is issued.
C3_ValidatesBeforeCalling ==
    (IsCard /\ (NumMembers = 0 \/ call.scene_instructions = <<>>)) =>
        /\ requests = <<>>
        /\ co[0].st \notin {"awaiting", "returned"}

----------------------------------------------------------------------------
(* C4 *)

\* C4: in generate_card, an empty or absent overlay_instructions puts "N/A"
\* in the prompt's overlay section and an empty or absent style_instructions
\* puts "Photorealistic style with vibrant colors." in its style section; a
\* non-empty one is placed in the prompt unchanged.
C4_FallbackInstructions ==
    \A r \in ImageRequests :
        IsCard =>
            LET overlay == call.overlay_instructions
                style == call.style_instructions
                prompt == RequestPrompt(r)
            IN  /\ (overlay.isNone \/ overlay.val = <<>>) =>
                       OverlaySection(prompt) = <<"N/A">>
                /\ (~overlay.isNone /\ overlay.val # <<>>) =>
                       OverlaySection(prompt) = overlay.val
                /\ (style.isNone \/ style.val = <<>>) =>
                       StyleSection(prompt) = <<"Photorealistic style with vibrant colors.">>
                /\ (~style.isNone /\ style.val # <<>>) =>
                       StyleSection(prompt) = style.val

\* a card prompt was sent for an empty overlay and an absent style
C4_Witness ==
    /\ IsCard /\ ImageRequests # {}
    /\ call.overlay_instructions = Some(<<>>)
    /\ call.style_instructions = None

----------------------------------------------------------------------------
(* C5, C6 *)

\* the answered image request of the call, and what the model put in it
AnsweredImage(r) ==
    /\ r \in ImageRequests
    /\ requests[r].answered
    /\ ~requests[r].response.raised

PartsOf(r) ==
    IF requests[r].response.parts.isNone THEN <<>> ELSE requests[r].response.parts.val

\* an image part: an inline part that as_image() turns into an image
IsImagePart(ps, k) == ps[k].inline /\ ps[k].image
ImagePartCount(ps) == Cardinality({k \in 1..Len(ps) : IsImagePart(ps, k)})
FirstImagePart(ps) ==
    ps[CHOOSE k \in 1..Len(ps) :
           IsImagePart(ps, k) /\ \A j \in 1..(k - 1) : ~IsImagePart(ps, j)]

MultipleImagesWarning == "Multiple images generated, returning only the first"

\* C5 as claimed: a response with two or more image parts yields exactly one
\* image, the one decoded from the first image part, and one warning.
C5_FirstImageReturned ==
    \A r \in 1..Len(requests) :
        (AnsweredImage(r) /\ ImagePartCount(PartsOf(r)) >= 2) =>
            /\ co[0].st = "returned"
            /\ co[0].image = PIL_open(FirstImagePart(PartsOf(r)).bytes)
            /\ warnings = <<MultipleImagesWarning>>

\* C5 amended: a response with two or more image parts logs one warning and
\* is decided by its first image part alone: when that part's bytes are
\* non-empty and decodable, exactly the image decoded from them is returned;
\* when they are empty the operation fails with "No image data available",
\* when they cannot be decoded it fails in the decoder; it never fails
\* with "No image response generated".
C5_FirstImageDecides ==
    \A r \in 1..Len(requests) :
        (AnsweredImage(r) /\ ImagePartCount(PartsOf(r)) >= 2) =>
            LET first == FirstImagePart(PartsOf(r)) IN
            /\ warnings = <<MultipleImagesWarning>>
            /\ first.bytes = "png1" => co[0] = ReturnedImage("picture1")
            /\ first.bytes = "png2" => co[0] = ReturnedImage("picture2")
            /\ first.bytes = "" => co[0] = Raised(ErrNoImageData)
            /\ first.bytes = "junk" => co[0] = Raised(ErrDecode)

\* two images came back and the one decoded from the first was returned
C5_Witness ==
    \E r \in 1..Len(requests) :
        /\ AnsweredImage(r)
        /\ PartsOf(r) = <<ImagePart("png2"), ImagePart("png1")>>
        /\ co[0] = ReturnedImage("picture2")
        /\ warnings = <<MultipleImagesWarning>>

\* C6: a response with no inline image part (no parts at all, or only
\* non-image parts) makes generate_image_response fail with the generation
\* error; no image is returned.
C6_NoImageIsAnError ==
    \A r \in 1..Len(requests) :
        (AnsweredImage(r) /\ ImagePartCount(PartsOf(r)) = 0) =>
            /\ co[0] = Raised(ErrNoImage)
            /\ warnings = <<>>

\* a response of two non-image parts, one of them inline data, was refused
C6_Witness ==
    \E r \in 1..Len(requests) :
        /\ AnsweredImage(r)
        /\ PartsOf(r) = <<TextPart, BlobPart>>
        /\ co[0] = Raised(ErrNoImage)

----------------------------------------------------------------------------
(* C7 *)

\* C7: generate_text_response, and scene, style and profile description
\* enhancement built on it, return exactly the text of the model response
\* when it is non-empty and fail when the response has no text or empty text.
C7_TextOrError ==
    \A r \in TextRequests :
        (requests[r].answered /\ ~requests[r].response.raised) =>
            LET text == requests[r].response.text
                i == requests[r].co
            IN  /\ (~text.isNone /\ Len(text.val) > 0) =>
                       /\ co[i].st = "returned"
                       /\ co[i].text = text.val
                /\ (text.isNone \/ Len(text.val) = 0) =>
                       /\ co[i].st = "raised"
                       /\ co[i].err = ErrNoText

\* scene enhancement returned the two-line text the model answered
C7_Witness ==
    /\ call.op = "generate_scene_description"
    /\ Len(requests) = 1 /\ requests[1].answered
    /\ requests[1].response.text = Some(<<"R2", NL, "R3">>)
    /\ co[0] = ReturnedText(<<"R2", NL, "R3">>)

----------------------------------------------------------------------------
(* C8, C9 *)

Expanding == IsCard /\ call.expand_profile_descriptions

\* C8: with expand_profile_descriptions the per-profile requests are issued
\* concurrently (a task that has not sent its request can always send it,
\* whatever the others are waiting for) and, in whatever order they
\* complete, the i-th joined description is the one produced for profile i.
C8_JoinedInInputOrder ==
    Expanding =>
        /\ \A i \in 1..NumMembers : co[i].st = "ready" => ENABLED TaskStart(i)
        /\ gather.st = "result" =>
               /\ Len(gather.results) = NumMembers
               /\ \A i \in 1..NumMembers :
                      \E q \in TextRequests :
                          /\ requests[q].co = i
                          /\ Tail(requests[q].contents) = <<Family[i].image>>
                          /\ gather.results[i] = requests[q].response.text.val
        /\ \A r \in ImageRequests :
               FamilyBlock(RequestPrompt(r)) =
                   Join([i \in 1..NumMembers |-> EnhancedFor(i)], <<NL>>)

\* both requests were in flight together, the second was answered first,
\* with a different text, and the join is done
C8_Witness ==
    /\ Expanding /\ NumMembers = 2
    /\ Family[1] # Family[2]
    /\ Len(requests) >= 2
    /\ requests[1].co = 1 /\ requests[2].co = 2
    /\ completed = <<2, 1>>
    /\ gather.st = "result"
    /\ gather.results[1] # gather.results[2]

\* C9: with expand_profile_descriptions, once an enhancement request has
\* failed generate_card fails with a single error and never issues the image
\* request; the image request is issued only after every enhancement has
\* completed successfully.
C9_FailureStopsTheCard ==
    Expanding =>
        /\ (\E i \in 1..NumMembers : co[i].st = "raised") =>
               /\ ImageRequests = {}
               /\ co[0].st \in {"gather", "raised"}
               /\ gather.st = "exception"
               /\ co[0].st = "raised" => co[0].err = gather.err
               /\ \E i \in 1..NumMembers : co[i] = Raised(gather.err)
        /\ ImageRequests # {} =>
               \A i \in 1..NumMembers : co[i].st = "returned"

\* of two enhancement requests one failed and one succeeded; generate_card
\* has failed with the task's error and sent no image request
C9_Witness ==
    /\ Expanding /\ NumMembers = 2
    /\ co[1].st = "returned"
    /\ co[2] = Raised(ErrNoText)
    /\ co[0] = Raised(ErrNoText)
    /\ ImageRequests = {}

----------------------------------------------------------------------------
(* C10 *)

\* C10: with no API key passed and the environment variable unset or empty,
\* create_client fails with the configuration error, so a
\* generate_text_response or generate_image_response call made without a
\* client fails before any request is sent to the model.
C10_NoKeyNoRequest ==
    (call.op # "none" /\ call.client.isNone /\ (env.isNone \/ env.val = <<>>)) =>
        /\ requests = <<>>
        /\ \A i \in 0..MaxProfiles :
               /\ co[i].st \in {"none", "ready", "gather", "raised"}
               /\ co[i].st = "raised" => co[i].err = ErrNoKey
        /\ (call.op # "generate_card" \/ ~Expanding \/ NumMembers = 0) =>
               co[0] = Raised(ErrNoKey)

\* the variable is set but empty: a plain generate_card call, which goes
\* straight to generate_image_response, failed without a request
C10_Witness ==
    /\ IsCard /\ ~call.expand_profile_descriptions /\ NumMembers = 1
    /\ call.client.isNone
    /\ env = Some(<<>>)
    /\ co[0] = Raised(ErrNoKey)
    /\ requests = <<>>

----------------------------------------------------------------------------
(* C12 *)

\* the positions of the line breaks of text, with both ends of the text
Breaks(text) == {0, Len(text) + 1} \cup {k \in 1..Len(text) : text[k] = NL}

\* the j-th line of text: what lies between two neighbouring breaks
LineAt(text, j) ==
    LET from == CHOOSE k \in Breaks(text) :
                    Cardinality({m \in Breaks(text) : m < k}) = j - 1
        to   == CHOOSE k \in Breaks(text) :
                    Cardinality({m \in Breaks(text) : m < k}) = j
    IN  SubSeq(text, from + 1, to - 1)

LineCount(text) == Cardinality(Breaks(text)) - 1

IsBlank(line) == \A k \in 1..Len(line) : line[k] \in Whitespace

\* s is line without its surrounding whitespace
IsStripped(s, line) ==
    /\ s # <<>>
    /\ s[1] \notin Whitespace
    /\ s[Len(s)] \notin Whitespace
    /\ \E pre \in 0..Len(line) :
          /\ pre + Len(s) <= Len(line)
          /\ SubSeq(line, pre + 1, pre + Len(s)) = s
          /\ IsBlank(SubSeq(line, 1, pre))
          /\ IsBlank(SubSeq(line, pre + Len(s) + 1, Len(line)))

\* the numbers of the non-blank lines of text
NonBlankLines(text) == {j \in 1..LineCount(text) : ~IsBlank(LineAt(text, j))}

\* out is made of one piece per non-blank line of text, in the order of the
\* lines, each piece the stripped line, with one space between neighbours
\* and nothing else: cut[j] is where the piece of line j ends in out
MadeOfStrippedLines(out, text) ==
    LET nb == NonBlankLines(text)
        Prev(j) == {m \in nb : m < j}
    IN  \E cut \in [nb -> 0..Len(out)] :
          /\ \A j \in nb :
                LET start == IF Prev(j) = {} THEN 1
                             ELSE cut[CHOOSE m \in Prev(j) : \A q \in Prev(j) : q <= m] + 2
                IN  /\ start <= cut[j]
                    /\ IsStripped(SubSeq(out, start, cut[j]), LineAt(text, j))
                    /\ start > 1 => out[start - 1] = " "
          /\ IF nb = {} THEN out = <<>>
             ELSE cut[CHOOSE m \in nb : \A q \in nb : q <= m] = Len(out)

----------------------------------------------------------------------------
(* C15 *)

SceneSection(prompt) == Between(prompt, SceneMarker, StyleMarker)

\* the card prompt of request r has each given instruction in its own
\* section and one "Picture of {name}: {description}" per profile, and a
\* single profile comes with a single attached image
SectionsAndProfiles(r) ==
    LET prompt == RequestPrompt(r) IN
    /\ SceneSection(prompt) = call.scene_instructions
    /\ ~Falsy(call.style_instructions) =>
          StyleSection(prompt) = call.style_instructions.val
    /\ ~Falsy(call.overlay_instructions) =>
          OverlaySection(prompt) = call.overlay_instructions.val
    /\ \A i \in 1..NumMembers : Contains(prompt, Profile_str(Family[i]))
    /\ NumMembers = 1 => Len(RequestImages(r)) = 1

\* C15: in the prompt generate_card builds, scene, style and overlay text
\* are each under their own section marker, the prompt has the line
\* "Picture of {name}: {description}" of the profile, and a single profile
\* gives exactly one attached image.
C15_SectionsAndProfileLine ==
    IsCard => \A r \in ImageRequests : SectionsAndProfiles(r)

\* C15, on the path without description enhancement only
C15_PlainPathSections ==
    (IsCard /\ ~Expanding) => \A r \in ImageRequests : SectionsAndProfiles(r)

C15_PlainPathWitness ==
    /\ IsCard /\ ~Expanding /\ NumMembers = 1
    /\ ~Falsy(call.style_instructions) /\ ~Falsy(call.overlay_instructions)
    /\ call.scene_instructions # <<>>
    /\ ImageRequests # {}

----------------------------------------------------------------------------
(* C16 *)

\* the family member whose photo the TEXT request r is about
PhotoFor(r) ==
    IF IsCard THEN Family[requests[r].co].image ELSE call.image

\* C16: the request of scene and of style enhancement carries no image; the
\* request of profile-description enhancement carries exactly one image, the
\* photo of the person described.
C16_ImagesOfTextRequests ==
    \A r \in TextRequests :
        IF call.op \in {"generate_scene_description", "generate_style_description"}
        THEN RequestImages(r) = <<>>
        ELSE RequestImages(r) = <<PhotoFor(r)>>

\* both enhancement tasks of a two-member card have sent their request
C16_Witness ==
    /\ Expanding /\ NumMembers = 2
    /\ Cardinality(TextRequests) = 2
    /\ Family[1].image # Family[2].image

----------------------------------------------------------------------------
(* C17 *)

\* C17: against a model that echoes its prompt, scene enhancement returns a
\* text that has the instruction it was given as a substring.
C17_EchoHasInstruction ==
    (call.op = "generate_scene_description" /\ co[0].st = "returned")
        => Contains(co[0].text, call.instruction)

C17_Witness ==
    /\ call.op = "generate_scene_description"
    /\ co[0].st = "returned"
    /\ Len(call.instruction) > 1

----------------------------------------------------------------------------
(* C19 *)

\* the requests coroutine i has sent
RequestsOf(i) == {r \in 1..Len(requests) : requests[r].co = i}

\* coroutine i ended in create_client, for want of an API key
NoKeyFor(i) == co[i].st = "raised" /\ co[i].err = ErrNoKey /\ RequestsOf(i) = {}

\* generate_card gave up on a failed enhancement
GaveUp == IsCard /\ co[0].st = "raised" /\ gather.st = "exception"

\* C19 as stated: a finished call has sent exactly one request; a finished
\* generate_card has sent exactly one image request, with aspect ratio 4:3
\* and search grounding.
C19_ExactlyOneRequest ==
    Done(co[0]) =>
        /\ Cardinality(RequestsOf(0)) = 1
        /\ IsCard => /\ Cardinality(ImageRequests) = 1
                     /\ \A r \in ImageRequests :
                           /\ requests[r].aspect_ratio = "4:3"
                           /\ requests[r].google_search

\* C19, amended: no coroutine ever sends a second request (no retry); one
\* that ended has sent exactly one unless it failed for want of an API key
\* or, for generate_card, on a failed enhancement; generate_card sends text
\* requests only with expand_profile_descriptions, at most one per profile,
\* and has sent one for every profile when it returns; its image request has
\* aspect ratio 4:3 and search grounding.
C19_AtMostOneRequest ==
    /\ \A i \in 0..MaxProfiles :
          /\ Cardinality(RequestsOf(i)) <= 1
          /\ Done(co[i]) =>
                (Cardinality(RequestsOf(i)) = 1 <=> ~(NoKeyFor(i) \/ (i = 0 /\ GaveUp)))
    /\ IsCard =>
          /\ ImageRequests \subseteq RequestsOf(0)
          /\ \A r \in TextRequests : Expanding /\ requests[r].co \in 1..NumMembers
          /\ \A r \in ImageRequests :
                /\ requests[r].aspect_ratio = "4:3"
                /\ requests[r].google_search
          /\ co[0].st = "returned" =>
                /\ Cardinality(ImageRequests) = 1
                /\ Expanding => Cardinality(TextRequests) = NumMembers

\* an expanded card for two members has returned its image
C19_Witness ==
    /\ Expanding /\ NumMembers = 2
    /\ co[0].st = "returned"
    /\ Cardinality(TextRequests) = 2
    /\ Cardinality(ImageRequests) = 1

----------------------------------------------------------------------------
(* C20 *)

\* generate_card is suspended on a gather that is already resolved
OnResolvedGather == co[0].st = "gather" /\ gather.st \in {"result", "exception"}

\* C20: when every request is answered, every generate_card call ends, with
\* an image or with an error; suspended on a gather that has failed or has
\* all its results, it can resume at once, whatever the other tasks do.
C20_CardFinishes ==
    /\ IsCard ~> (IsCard /\ Done(co[0]))
    /\ [](OnResolvedGather => ENABLED GatherResume)

\* generate_card has ended on a failed enhancement while another enhancement
\* request is still unanswered
C20_Witness ==
    /\ IsCard /\ co[0].st = "raised"
    /\ gather.st = "exception"
    /\ \E i \in 1..NumMembers : co[i].st = "awaiting"

----------------------------------------------------------------------------
(* C11 *)

\* C11: every request the application sends carries the key of the sidebar
\* field, and a generate_card call made with a key in that field does not
\* fail for want of a key.
C11_SidebarKeyUsed ==
    /\ \A r \in 1..Len(requests) : requests[r].api_key = session.gemini_key
    /\ (ui.card_calls > 0 /\ session.gemini_key # <<>>) => ~NoKeyFor(0)

\* C11, its second half: with no key in the field and none in the
\* environment, no request is sent
C11_NoKeyNoRequest ==
    (session.gemini_key = <<>> /\ Falsy(env)) => requests = <<>>

----------------------------------------------------------------------------
(* C13 *)

\* member has no photo, no name or no description
Incomplete(member) ==
    \/ member.image = NoImage
    \/ member.name.isNone \/ member.name.val = <<>>
    \/ member.description.isNone \/ member.description.val = <<>>

\* C13: a click on Generate with an incomplete family member ends the run
\* with the error shown, without a generate_card call and without a request.
C13_IncompleteBlocksGenerate ==
    (/\ ui.event = "generate"
     /\ \E j \in 1..Len(session.family_members) :
           Incomplete(session.family_members[j]))
    => /\ ui.pc = "idle"
       /\ MsgUploadAll \in ui.errors
       /\ ui.card_calls = 0
       /\ call = NoCall
       /\ requests = <<>>

\* Generate was clicked with the first member filled in and the second not
C13_Witness ==
    /\ ui.event = "generate"
    /\ ~Incomplete(session.family_members[1])
    /\ Incomplete(session.family_members[2])
    /\ session.family_members[2].image # NoImage
    /\ MsgUploadAll \in ui.errors

----------------------------------------------------------------------------
(* C14 *)

\* C14: a run calls generate_card at most once and sends at most one
\* request; when the call has failed, the run ends with the error shown,
\* with no further call or request, and with the stored generated image as
\* it was.
C14_OneCallFailureCaught ==
    /\ [](ui.card_calls <= 1 /\ Len(requests) <= 1)
    /\ [][(ui.pc = "in_call" /\ co[0].st = "raised")
            => /\ ui'.pc = "idle"
               /\ MsgGenerating(co[0].err) \in ui'.errors
               /\ ui'.card_calls = ui.card_calls
               /\ requests' = requests
               /\ session'.generated_image = session.generated_image]_vars

\* a card was generated before, and the generate_card call of a later click
\* has failed
C14_Witness ==
    /\ ui.pc = "idle" /\ ui.event = "generate"
    /\ ui.card_calls = 1
    /\ co[0].st = "raised"
    /\ session.generated_image # NoImage
    /\ \E e \in {ErrNoImage, ErrUpstream} : MsgGenerating(e) \in ui.errors

----------------------------------------------------------------------------
(* C21 *)

\* C21: no step of a generate_card call, to its return or its failure, with
\* or without description enhancement, changes the profile list it was
\* given: same length, same order, same image, name and description.
C21_InputUnchanged ==
    [][IsCard => call'.family_members = call.family_members]_vars

\* an enhanced card for two different members has returned its image
C21_Witness ==
    /\ Expanding /\ co[0].st = "returned"
    /\ NumMembers = 2 /\ Family[1] # Family[2]
    /\ \A i \in 1..2 : co[i].text # Family[i].description

----------------------------------------------------------------------------
(* The right column of the application *)

Enhanced == DOMAIN EnhancingKey

InstructionsIn(s, f) == s.app_state[InstructionsKey[f]]
Enhancing(s, f) == s[EnhancingKey[f]]
Proposal(s, f) == s[EnhancedKey[f]]

\* the step is the run started by event kind on section f
EventStep(kind, f) == ui.pc = "idle" /\ ui'.event = kind /\ ui'.field = f

C23_NoCallWhileCached ==
    /\ ui.enhance_calls <= 1
    /\ Len(requests) <= 1
    /\ ui.pc \in {"enhance", "in_enhance"} => Proposal(session, ui.field).isNone

\* with a scene proposal cached, a run for another interaction has ended
\* without a call
C23_Witness ==
    /\ ui.pc = "idle" /\ ui.event = "instructions" /\ ui.field = "overlay"
    /\ session.enhancing_scene
    /\ ~session.scene_enhanced.isNone
    /\ ui.enhance_calls = 0
    /\ requests = <<>>

\* the enhancement call ended with an exception or without text
Failed(outcome) == outcome.st = "raised" \/ outcome.text = <<>>

\* the run of an enhance click, from the click to the end of the run
ClickedEnhance(f) == EventStep("enhance", f)
InEnhancement == ui.pc \in {"enhance", "in_enhance"} /\ ui'.pc = "in_enhance"
FailedReturn(f) ==
    ui.pc = "in_enhance" /\ ui'.pc # "in_enhance" /\ ui.field = f /\ Failed(co[0])

\* after the failed enhancement of section f: error shown, flag reset, no
\* proposal, instructions as at the call
FailureHandled(f) ==
    /\ \E m \in ui'.errors : m = MsgEnhanceFailed(f) \/ m = MsgEnhanceError(f, co[0].err)
    /\ ~Enhancing(session', f)
    /\ Proposal(session', f).isNone
    /\ session'.app_state = session.app_state

C25_ProposalOnlyWhileEnhancing ==
    ui.pc = "idle" =>
        \A f \in Enhanced : ~Proposal(session, f).isNone => Enhancing(session, f)

\* a style proposal is held at the end of a run that changed the scene
\* preset, and no scene proposal
C25_Witness ==
    /\ ui.pc = "idle" /\ ui.event = "preset" /\ ui.field = "scene"
    /\ session.enhancing_style
    /\ ~session.style_enhanced.isNone
    /\ ~session.enhancing_scene
    /\ session.scene_enhanced.isNone

\* the preset stored for section f, and the selector of f with the
\* selection it already has
PresetIn(s, f) == s[PresetKey[f]]
AllFields == {Fields[k] : k \in 1..Len(Fields)}
SameSelection(s, f) ==
    PresetSelector(s, f, [NoEvent EXCEPT !.kind = "preset", !.field = f,
                                         !.preset = PresetIn(s, f)])

\* the selector of section f has stored a different preset and its text
PresetChanged(f) ==
    /\ EventStep("preset", f)
    /\ PresetIn(session', f) # PresetIn(session, f)
    /\ PresetIn(session', f) \in DOMAIN ConfigFile[IF f = "scene" THEN "scenes"
                                     ELSE IF f = "style" THEN "styles" ELSE "overlays"]
    /\ InstructionsIn(session', f) =
           normalize_text(ConfigFile[IF f = "scene" THEN "scenes"
                                     ELSE IF f = "style" THEN "styles" ELSE "overlays"]
                                    [PresetIn(session', f)])

----------------------------------------------------------------------------
(* The family members of the application *)

\* C27: the index of the shown member is at least 0, below the number of
\* family members and within the member list; Previous cannot be clicked
\* at index 0, Next cannot be clicked at the last index.
C27_IndexInRange ==
    /\ 0 <= session.current_member_index
    /\ session.current_member_index < session.num_members
    /\ session.current_member_index + 1 \in DOMAIN session.family_members
    /\ session.current_member_index = 0 => ~ENABLED ClickPrevious
    /\ session.current_member_index = session.num_members - 1 => ~ENABLED ClickNext

\* Next has led to the last member
C27_Witness ==
    /\ ui.pc = "idle" /\ ui.event = "next"
    /\ session.current_member_index > 0
    /\ session.current_member_index = session.num_members - 1

\* the step is the run of a click on Generate
GenerateClicked == ui.pc = "idle" /\ ui'.event = "generate"

\* the first num_members entries of the member list are complete
FirstMembersComplete(s) ==
    \A j \in 1..s.num_members : is_complete(s.family_members[j])

\* C28: a click on Generate with each of the first num_members family
\* members complete starts the generation, whatever the member list holds
\* beyond num_members.
C28_CompleteMembersGenerate ==
    [][GenerateClicked /\ FirstMembersComplete(session) => ui'.pc = "calling"]_vars

\* the ProfilePicture of family member j
ProfileOf(member) ==
    [image |-> member.image, name |-> member.name.val,
     description |-> member.description.val]

\* C29: whenever the application calls generate_card, the profile list has
\* exactly num_members entries, the j-th made of the image, name and
\* description of family member j, also after an earlier generation and
\* after a failure to load an image.
C29_ProfileOfEveryMember ==
    ui.pc = "in_call" =>
        /\ Len(call.family_members) = session.num_members
        /\ \A j \in 1..Len(call.family_members) :
              call.family_members[j] = ProfileOf(session.family_members[j])

----------------------------------------------------------------------------
(* Accepting a proposal *)

\* C30: the proposal that Accept writes into the instructions of a section
\* was computed from the instruction text the section holds immediately
\* before the acceptance.
C30_AcceptedProposalIsCurrent ==
    [][\A f \in Enhanced :
          EventStep("accept", f) => ui.asked_for[f] = InstructionsIn(session, f)]_vars

====
